---- MODULE Spec2Model ----
(***************************************************************************)
(* Model of the ekitilaw document store and its tagged-text importer       *)
(* (src/laws/models.py, src/laws/admin.py).                                *)
(*                                                                         *)
(* Strings are sequences of tokens.  A token is one character (" ", "\n",  *)
(* a letter or digit) or one of the six tag words "@PART" ... "@APPENDIX", *)
(* which stand for the characters of that word.  str.strip, str.startswith,*)
(* str.replace, str.splitlines and str.join are operators on such          *)
(* sequences.  The empty string is << >>.                                  *)
(*                                                                         *)
(* models.py declares ai_prepared_text on line 50, below the body of Law;  *)
(* admin.py reads and writes it as a column of Law (fieldsets, line 329;   *)
(* update_fields, line 364; law_object.ai_prepared_text, line 69) and it   *)
(* is modelled as a column of Law.                                         *)
(*                                                                         *)
(* A behaviour of Spec is one admin request: Init draws the store and the  *)
(* tagged text the request finds, the action is the whole handler.  A call *)
(* of Model.objects.create may raise (a database error, or the search-index*)
(* signal of IndexMixin failing); which call raises, if any, is an input   *)
(* of the action.  The tables keep their rows in id order and an id is     *)
(* never given twice.                                                      *)
(*                                                                         *)
(* StoreSpec is a history of the store from empty: laws and rows are       *)
(* created, texts imported, laws deleted, one admin request after the      *)
(* other.  SearchSpec is one request to views.search against a search      *)
(* service whose answers (and failures) Init draws; DetailSpec is one      *)
(* request to views.law_detail against a store Init draws.                 *)
(***************************************************************************)
EXTENDS Integers, Sequences, FiniteSets, TLC

\* ------------------------------------------------------------- bounds
\* Longest tagged text, in lines.
MaxLines == 3
\* The latest Model.objects.create call of one import that may fail.
MaxFail == 2
\* Most hits the three search collections return to one request, together.
MaxHits == 3
\* Most Section, Schedule and Appendix rows created in one history of the
\* store, together.
MaxRows == 4
\* Most Section rows in the store a law-detail request finds.
MaxSections == 3

\* ------------------------------------------------------------ strings
SP == " "
NL == "\n"
TagTokens == {"@PART", "@CHAPTER", "@SECTION", "@TITLE", "@SCHEDULE", "@APPENDIX"}
Whitespace == {SP, NL}

\* A null TextField (Python None).
NoneText == <<"<None>">>

RECURSIVE LStrip(_)
LStrip(s) ==
  IF s = << >> THEN << >>
  ELSE IF Head(s) \in Whitespace THEN LStrip(Tail(s)) ELSE s

RECURSIVE RStrip(_)
RStrip(s) ==
  IF s = << >> THEN << >>
  ELSE IF s[Len(s)] \in Whitespace THEN RStrip(SubSeq(s, 1, Len(s) - 1)) ELSE s

\* str.strip()
Strip(s) == RStrip(LStrip(s))

\* sep.join(parts)
RECURSIVE Join(_, _)
Join(parts, sep) ==
  IF parts = << >> THEN << >>
  ELSE IF Len(parts) = 1 THEN parts[1]
  ELSE parts[1] \o <<sep>> \o Join(Tail(parts), sep)

\* str.splitlines(): a line break ends a line; a final line break opens no
\* further line.
RECURSIVE SplitFrom(_, _, _)
SplitFrom(s, cur, started) ==
  IF s = << >> THEN (IF started THEN <<cur>> ELSE << >>)
  ELSE IF Head(s) = NL THEN <<cur>> \o SplitFrom(Tail(s), << >>, FALSE)
  ELSE SplitFrom(Tail(s), Append(cur, Head(s)), TRUE)

SplitLines(s) == SplitFrom(s, << >>, FALSE)

\* line_stripped.startswith('@TAG ')
StartsWithTag(s, tag) == Len(s) >= 2 /\ s[1] = tag /\ s[2] = SP

\* line_stripped.startswith('@')
StartsWithAt(s) == Len(s) >= 1 /\ s[1] \in TagTokens

\* line_stripped.replace('@TAG ', '', 1) on a string that starts with '@TAG '
TagArg(s) == SubSeq(s, 3, Len(s))

\* ------------------------------------------------------- the database
LawIds == {1, 2}

NoErr == [kind |-> "none", number |-> << >>]
EmptyTextErr == [kind |-> "empty", number |-> << >>]
SaveErr(number) == [kind |-> "save", number |-> number]

EmptyDB ==
  [sections |-> << >>, schedules |-> << >>, appendices |-> << >>,
   secId |-> 1, schId |-> 1, appId |-> 1, lawId |-> 1]

SectionRow(id, law, part, chapter, number, title, content) ==
  [id |-> id, law |-> law, part_heading |-> part, chapter_heading |-> chapter,
   section_number |-> number, section_title |-> title, content |-> content]

ScheduleRow(id, law, number, title, content) ==
  [id |-> id, law |-> law, schedule_number |-> number, title |-> title,
   content |-> content]

AppendixRow(id, law, number, title, content) ==
  [id |-> id, law |-> law, appendix_number |-> number, title |-> title,
   content |-> content]

RECURSIVE SelectSeq2(_, _, _)
SelectSeq2(s, law, keep) ==
  IF s = << >> THEN << >>
  ELSE IF (Head(s).law = law) = keep
       THEN <<Head(s)>> \o SelectSeq2(Tail(s), law, keep)
       ELSE SelectSeq2(Tail(s), law, keep)

\* law.sections.all() and friends: the rows of one law, by id.
RowsOf(table, law) == SelectSeq2(table, law, TRUE)
\* The rows of every other law.
RowsNotOf(table, law) == SelectSeq2(table, law, FALSE)

\* ---------------------------------------------------------- _save_item
\* The item being built.  A key the code never set reads as '' through
\* item.get(key, ''), so an unset title or content is the empty string.
NoItem ==
  [type |-> "none", part |-> << >>, chapter |-> << >>, number |-> << >>,
   title |-> << >>, content |-> << >>]

NewSection(part, chapter, number) ==
  [NoItem EXCEPT !.type = "section", !.part = part, !.chapter = chapter,
                 !.number = number]

NewSchedule(number) == [NoItem EXCEPT !.type = "schedule", !.number = number]

NewAppendix(number) == [NoItem EXCEPT !.type = "appendix", !.number = number]

\* Model.objects.create: the row is appended under the next id of its table.
Create(db, item, law) ==
  CASE item.type = "section" ->
         [db EXCEPT !.sections = Append(@, SectionRow(db.secId, law, item.part,
                                     item.chapter, item.number, item.title,
                                     item.content)),
                    !.secId = @ + 1]
    [] item.type = "schedule" ->
         [db EXCEPT !.schedules = Append(@, ScheduleRow(db.schId, law,
                                      item.number, item.title, item.content)),
                    !.schId = @ + 1]
    [] item.type = "appendix" ->
         [db EXCEPT !.appendices = Append(@, AppendixRow(db.appId, law,
                                       item.number, item.title, item.content)),
                    !.appId = @ + 1]
    [] OTHER -> db

\* env: the database, the create calls left before one fails (0: none
\* fails), the exception in flight, the rows created and the lines read.
NewEnv(db, fuel) ==
  [db |-> db, fuel |-> fuel, err |-> NoErr, saved |-> 0, lines |-> 0]

SaveItem(env, item, law) ==
  IF env.err # NoErr \/ item.type = "none" THEN env
  ELSE IF env.fuel = 1
       THEN [env EXCEPT !.err = SaveErr(item.number), !.fuel = 0]
       ELSE [env EXCEPT !.db = Create(env.db, item, law),
                        !.saved = @ + 1,
                        !.fuel = IF @ = 0 THEN 0 ELSE @ - 1]

\* ----------------------------------------------------- _run_import_logic
\* Which branch of the if/elif chain a line takes.
Kind(line) ==
  LET s == Strip(line) IN
  CASE StartsWithTag(s, "@PART") -> "PART"
    [] StartsWithTag(s, "@CHAPTER") -> "CHAPTER"
    [] StartsWithTag(s, "@SECTION") -> "SECTION"
    [] StartsWithTag(s, "@TITLE") -> "TITLE"
    [] StartsWithTag(s, "@SCHEDULE") -> "SCHEDULE"
    [] StartsWithTag(s, "@APPENDIX") -> "APPENDIX"
    [] OTHER -> "TEXT"

Openers == {"SECTION", "SCHEDULE", "APPENDIX"}
Structural == {"PART", "CHAPTER"} \cup Openers

\* The record a @SECTION, @SCHEDULE or @APPENDIX line starts.
NewItem(kind, part, chapter, number) ==
  CASE kind = "SECTION" -> NewSection(part, chapter, number)
    [] kind = "SCHEDULE" -> NewSchedule(number)
    [] kind = "APPENDIX" -> NewAppendix(number)
    [] OTHER -> NoItem

\* Mutant of SetTitle: a @TITLE line read while no record is open starts a
\* record of its own.
SetTitle_OpensRecord(item, label) ==
  IF item.type # "none" THEN [item EXCEPT !.title = label]
  ELSE [NoItem EXCEPT !.type = "section", !.title = label]

\* if current_item: current_item['title'] = ...
SetTitle(item, label) ==
  IF item.type # "none" THEN [item EXCEPT !.title = label] ELSE item

\* current_item['content'] = "\n".join(content_buffer).strip()
WithContent(item, buf) == [item EXCEPT !.content = Strip(Join(buf, NL))]

\* The locals of one pass over the lines, and the environment.
Fresh(env) ==
  [part |-> << >>, chapter |-> << >>, item |-> NoItem, buf |-> << >>,
   env |-> env]

Read(st) == [st EXCEPT !.env.lines = @ + 1]

\* First pass (lines 80-129): saves the previous item at every tag but
\* @TITLE, never copies the buffer into an item, saves nothing at the end.
Step1(st, line, law) ==
  LET s == Strip(line)
      k == Kind(line)
      arg == TagArg(s)
      saved == SaveItem(st.env, st.item, law)
      tagged ==
        CASE k = "PART" ->
               [st EXCEPT !.env = saved, !.item = NoItem, !.part = arg]
          [] k = "CHAPTER" ->
               [st EXCEPT !.env = saved, !.item = NoItem, !.chapter = arg]
          [] k \in Openers ->
               [st EXCEPT !.env = saved,
                          !.item = NewItem(k, st.part, st.chapter, arg)]
          [] k = "TITLE" -> [st EXCEPT !.item = SetTitle(@, arg)]
          [] OTHER -> st
  IN IF k # "TEXT"
     THEN [tagged EXCEPT !.item = IF @.type # "none"
                                  THEN [@ EXCEPT !.content = << >>] ELSE @,
                         !.buf = << >>]
     ELSE IF st.item.type # "none" THEN [st EXCEPT !.buf = Append(@, line)]
          ELSE st

RECURSIVE Loop1(_, _, _)
Loop1(lines, st, law) ==
  IF lines = << >> \/ st.env.err # NoErr THEN st
  ELSE Loop1(Tail(lines), Step1(Read(st), Head(lines), law), law)

\* Second pass (lines 141-180): as the first, but a line starting with '@'
\* moves a non-empty buffer into the open item.
Step2(st, line, law) ==
  LET s == Strip(line)
      k == Kind(line)
      arg == TagArg(s)
      saved == SaveItem(st.env, st.item, law)
      branch ==
        CASE k = "PART" ->
               [st EXCEPT !.env = saved, !.item = NoItem, !.buf = << >>,
                          !.part = arg]
          [] k = "CHAPTER" ->
               [st EXCEPT !.env = saved, !.item = NoItem, !.buf = << >>,
                          !.chapter = arg]
          [] k \in Openers ->
               [st EXCEPT !.env = saved, !.buf = << >>,
                          !.item = NewItem(k, st.part, st.chapter, arg)]
          [] k = "TITLE" -> [st EXCEPT !.item = SetTitle(@, arg)]
          [] OTHER -> IF st.item.type # "none"
                      THEN [st EXCEPT !.buf = Append(@, line)] ELSE st
  IN IF StartsWithAt(s) /\ branch.buf # << >> /\ branch.item.type # "none"
     THEN [branch EXCEPT !.item = WithContent(@, branch.buf), !.buf = << >>]
     ELSE branch

RECURSIVE Loop2(_, _, _)
Loop2(lines, st, law) ==
  IF lines = << >> \/ st.env.err # NoErr THEN st
  ELSE Loop2(Tail(lines), Step2(Read(st), Head(lines), law), law)

\* Third pass (lines 195-232): saves the previous item at every tag but
\* @TITLE, sets no content, saves nothing at the end.
Step3(st, line, law) ==
  LET s == Strip(line)
      k == Kind(line)
      arg == TagArg(s)
      saved == SaveItem(st.env, st.item, law)
  IN CASE k = "PART" ->
            [st EXCEPT !.env = saved, !.item = NoItem, !.part = arg]
       [] k = "CHAPTER" ->
            [st EXCEPT !.env = saved, !.item = NoItem, !.chapter = arg]
       [] k \in Openers ->
            [st EXCEPT !.env = saved, !.buf = << >>,
                       !.item = NewItem(k, st.part, st.chapter, arg)]
       [] k = "TITLE" -> [st EXCEPT !.item = SetTitle(@, arg)]
       [] OTHER -> IF st.item.type # "none"
                   THEN [st EXCEPT !.buf = Append(@, line)] ELSE st

RECURSIVE Loop3(_, _, _)
Loop3(lines, st, law) ==
  IF lines = << >> \/ st.env.err # NoErr THEN st
  ELSE Loop3(Tail(lines), Step3(Read(st), Head(lines), law), law)

\* Mutant of Step4: text read while no record is open is buffered and a
\* structural tag read then keeps the buffer for the record it opens.
Step4_KeepsIdleText(st, line, law) ==
  LET s == Strip(line)
      k == Kind(line)
      arg == TagArg(s)
      part == IF k = "PART" THEN arg ELSE st.part
      chapter == CASE k = "PART" -> << >>
                   [] k = "CHAPTER" -> arg
                   [] OTHER -> st.chapter
      new_item == NewItem(k, st.part, st.chapter, arg)
      done == WithContent(st.item, st.buf)
  IN IF k \in Structural
     THEN [st EXCEPT !.part = part, !.chapter = chapter,
                     !.env = IF st.item.type # "none"
                             THEN SaveItem(st.env, done, law) ELSE st.env,
                     !.item = new_item,
                     !.buf = IF st.item.type # "none" THEN << >> ELSE @]
     ELSE IF k = "TITLE" THEN [st EXCEPT !.item = SetTitle(@, arg)]
     ELSE [st EXCEPT !.buf = Append(@, line)]

\* Fourth pass (lines 244-286): a @PART line resets the chapter; the open item
\* gets its content and is saved when the next structural tag is read.
Step4(st, line, law) ==
  LET s == Strip(line)
      k == Kind(line)
      arg == TagArg(s)
      part == IF k = "PART" THEN arg ELSE st.part
      chapter == CASE k = "PART" -> << >>
                   [] k = "CHAPTER" -> arg
                   [] OTHER -> st.chapter
      new_item == NewItem(k, st.part, st.chapter, arg)
      done == WithContent(st.item, st.buf)
  IN IF k \in Structural
     THEN [st EXCEPT !.part = part, !.chapter = chapter,
                     !.env = IF st.item.type # "none"
                             THEN SaveItem(st.env, done, law) ELSE st.env,
                     !.item = new_item, !.buf = << >>]
     ELSE IF k = "TITLE" THEN [st EXCEPT !.item = SetTitle(@, arg)]
     ELSE IF st.item.type # "none" THEN [st EXCEPT !.buf = Append(@, line)]
     ELSE st

RECURSIVE Loop4(_, _, _)
Loop4(lines, st, law) ==
  IF lines = << >> \/ st.env.err # NoErr THEN st
  ELSE Loop4(Tail(lines), Step4(Read(st), Head(lines), law), law)

\* "Save the very last item in the file" (lines 183-185 and 289-291).
SaveLast(st, law) ==
  IF st.env.err # NoErr \/ st.item.type = "none" THEN st
  ELSE [st EXCEPT !.item = WithContent(st.item, st.buf),
                  !.env = SaveItem(st.env, WithContent(st.item, st.buf), law)]

\* The four passes of _run_import_logic over the same lines, in order.
ParseLines(env, lines, law) ==
  LET p1 == Loop1(lines, Fresh(env), law)
      p2 == SaveLast(Loop2(lines, Fresh(p1.env), law), law)
      p3 == Loop3(lines, Fresh(p2.env), law)
      p4 == SaveLast(Loop4(lines, Fresh(p3.env), law), law)
  IN p4.env

\* Mutant of TextIsEmpty: only a null text is refused ("is None").
TextIsEmpty_NoneOnly(text) == text = NoneText

\* if not text_to_import
TextIsEmpty(text) == text = NoneText \/ text = << >>

RunImportLogic(env, text, law) ==
  IF TextIsEmpty(text) THEN [env EXCEPT !.err = EmptyTextErr]
  ELSE ParseLines(env, SplitLines(text), law)

\* ------------------------------------------------------------- state
VARIABLES
  laws,   \* the Law table: id -> row
  db,     \* the Section, Schedule and Appendix tables and the next id of each table
  last,   \* the admin action served: its input, what it saw and what it said
  pc,     \* the request being served: "ready" before its handler runs, "done" after
  meili,  \* the search service: what each collection answers, which call fails
  http,   \* the web request being served
  resp,   \* the response to it, and the calls the view made on the way
  users   \* the user table of django.contrib.auth, in id order

vars == <<laws, db, last, pc, meili, http, resp, users>>

\* The lines a tagged text is drawn from.
LineSet ==
  { <<"@PART", SP, "A">>,
    <<"@PART", SP, "B">>,
    <<SP, "@CHAPTER", SP, "X">>,
    <<"@SECTION", SP, "1">>,
    <<"@TITLE", SP, "T">>,
    <<"@SCHEDULE", SP, "1">>,
    <<"@APPENDIX", SP, "1">>,
    <<"a">>,
    <<SP, "b", SP>>,
    << >> }

LineSeqs == UNION { [1..n -> LineSet] : n \in 0..MaxLines }

\* What the ai_prepared_text column may hold: nothing, or lines joined by
\* line breaks.
Texts == {NoneText} \cup { Join(ls, NL) : ls \in LineSeqs }

LawRow(title, slug, text) ==
  [title |-> title, slug |-> slug, extracted_text |-> <<"r", "a", "w">>,
   ai_prepared_text |-> text]

\* The store the request finds: one row of each kind under each law, added
\* through the admin pages of Section, Schedule and Appendix.
OldDB ==
  [sections |->
     << SectionRow(1, 1, <<"O">>, <<"O">>, <<"9">>, <<"O">>, <<"o">>),
        SectionRow(2, 2, <<"O">>, <<"O">>, <<"9">>, <<"O">>, <<"o">>) >>,
   schedules |->
     << ScheduleRow(1, 1, <<"9">>, <<"O">>, <<"o">>),
        ScheduleRow(2, 2, <<"9">>, <<"O">>, <<"o">>) >>,
   appendices |->
     << AppendixRow(1, 1, <<"9">>, <<"O">>, <<"o">>),
        AppendixRow(2, 2, <<"9">>, <<"O">>, <<"o">>) >>,
   secId |-> 3, schId |-> 3, appId |-> 3, lawId |-> 3]

NoMessage == << >>

Message(level, text, err, title) ==
  [level |-> level, text |-> text, err |-> err, title |-> title]

\* str(e) of the exception _run_import_logic or _save_item raised.
ErrText(err) ==
  CASE err.kind = "empty" ->
         "The 'AI-Prepared Text' field is empty. Cannot import."
    [] err.kind = "save" -> "Failed to save item {number}: {e}"
    [] OTHER -> ""

NoLast ==
  [op |-> "none", qs |-> {}, pre |-> EmptyDB, preLaws |-> << >>,
   err |-> NoErr, saved |-> 0, lines |-> 0, messages |-> NoMessage]

\* No search service is consulted, no web request is served.
NoMeili == [hits |-> << >>, failing |-> "none"]
NoRequest == [op |-> "none"]
NoResponse == [raised |-> FALSE, status |-> 0]
NoUsers == << >>

Init ==
  /\ meili = NoMeili
  /\ http = NoRequest
  /\ resp = NoResponse
  /\ users = NoUsers
  /\ \E t \in Texts :
       laws = [l \in LawIds |->
                 IF l = 1 THEN LawRow("Law 1", "law-1", t)
                 ELSE LawRow("Law 2", "law-2",
                             <<"@SCHEDULE", SP, "2", NL, "c">>)]
  /\ db = OldDB
  /\ last = NoLast
  /\ pc = "ready"

\* ------------------------------------------------- import_from_ai_text
\* Mutant of DeleteLawContent: the appendices are not deleted.
DeleteLawContent_KeepsAppendices(d, law) ==
  [d EXCEPT !.sections = RowsNotOf(@, law),
            !.schedules = RowsNotOf(@, law)]

\* Mutant of DeleteLawContent: the tables are emptied for every law.
DeleteLawContent_AllLaws(d, law) ==
  [d EXCEPT !.sections = << >>, !.schedules = << >>, !.appendices = << >>]

\* law.sections.all().delete(); law.schedules.all().delete();
\* law.appendices.all().delete()
DeleteLawContent(d, law) ==
  [d EXCEPT !.sections = RowsNotOf(@, law),
            !.schedules = RowsNotOf(@, law),
            !.appendices = RowsNotOf(@, law)]

\* Mutant of Atomic: no transaction, the writes made before the exception stay.
Atomic_NoRollback(before, env) == env.db

\* with transaction.atomic(): the block's writes are kept when it ends
\* normally and undone when an exception leaves it.
Atomic(before, env) == IF env.err = NoErr THEN env.db ELSE before

\* The body of the transaction: the delete, then the import.
ImportBlock(d, fuel, law, text) ==
  RunImportLogic(NewEnv(DeleteLawContent(d, law), fuel), text, law)

ImportMessages(env, title) ==
  IF env.err = NoErr
  THEN << Message("SUCCESS", "Successfully imported all content for '{title}'.",
                  NoErr, title),
          Message("WARNING",
                  "You must now run syncindex in your terminal to make this new data searchable.",
                  NoErr, "") >>
  ELSE << Message("ERROR",
                  "An error occurred: {e}. Transaction has been rolled back.",
                  env.err, "") >>

TooManyMessages ==
  << Message("ERROR", "This action can only be run on one law at a time.",
             NoErr, "") >>

\* Mutant of TooMany: the action runs on any selection.
TooMany_Never(qs) == FALSE

\* if queryset.count() > 1
TooMany(qs) == Cardinality(qs) > 1

ImportFromAiText(qs, fuel) ==
  /\ pc = "ready"
  /\ pc' = "done"
  /\ laws' = laws
  /\ UNCHANGED <<meili, http, resp, users>>
  /\ IF TooMany(qs)
     THEN /\ db' = db
          /\ last' = [NoLast EXCEPT !.op = "import", !.qs = qs, !.pre = db,
                                    !.preLaws = laws,
                                    !.messages = TooManyMessages]
     ELSE LET law == CHOOSE l \in qs : TRUE
              env == ImportBlock(db, fuel, law, laws[law].ai_prepared_text)
          IN /\ db' = Atomic(db, env)
             /\ last' = [op |-> "import", qs |-> qs, pre |-> db,
                         preLaws |-> laws, err |-> env.err,
                         saved |-> env.saved, lines |-> env.lines,
                         messages |-> ImportMessages(env, laws[law].title)]

Next ==
  \E qs \in (SUBSET LawIds) \ {{}}, fuel \in 0..MaxFail :
    ImportFromAiText(qs, fuel)

Spec == Init /\ [][Next]_vars

\* ------------------------------------------------ the store over time
\* A history of the store: laws are added and deleted, rows are added on the
\* admin pages of Section, Schedule and Appendix, texts are imported.  Each
\* is one admin request; the admin then waits for the next.

\* The tagged texts of the laws of a history.
StoreTexts ==
  { NoneText,
    <<"@SECTION", SP, "1">>,
    <<"@SCHEDULE", SP, "1">> }

\* The title a law is given, and the slug Law.save() derives from it
\* (slugify(title)) when the slug was left empty.
TitleOf(id) == IF id = 1 THEN "Law 1" ELSE "Law 2"

Slugify(title) == IF title = "Law 1" THEN "law-1" ELSE "law-2"

NewLaw(id, text) == LawRow(TitleOf(id), Slugify(TitleOf(id)), text)

\* The admin's add page of Law; the store holds the laws of LawIds at most.
CreateLaw(text) ==
  /\ pc = "ready"
  /\ db.lawId \in LawIds
  /\ pc' = "done"
  /\ laws' = (db.lawId :> NewLaw(db.lawId, text)) @@ laws
  /\ db' = [db EXCEPT !.lawId = @ + 1]
  /\ last' = [NoLast EXCEPT !.op = "create_law", !.qs = {db.lawId},
                            !.pre = db, !.preLaws = laws]
  /\ UNCHANGED <<meili, http, resp, users>>

\* The row an add page of Section, Schedule or Appendix is filled in with.
AdminItem(kind) ==
  [NewItem(kind, <<"O">>, <<"O">>, <<"9">>) EXCEPT !.title = <<"O">>,
                                                  !.content = <<"o">>]

\* The admin's add pages of Section, Schedule and Appendix: the law is one
\* of the Law table (the foreign key admits no other).
CreateRow(kind, law) ==
  /\ pc = "ready"
  /\ law \in DOMAIN laws
  /\ pc' = "done"
  /\ db' = Create(db, AdminItem(kind), law)
  /\ last' = [NoLast EXCEPT !.op = "create_row", !.qs = {law},
                            !.pre = db, !.preLaws = laws]
  /\ UNCHANGED <<laws, meili, http, resp, users>>

\* Mutant of Cascade: the schedules of a deleted law stay.
Cascade_KeepsSchedules(d, law) ==
  [d EXCEPT !.sections = RowsNotOf(@, law),
            !.appendices = RowsNotOf(@, law)]

\* on_delete=models.CASCADE on Section.law, Schedule.law and Appendix.law.
Cascade(d, law) ==
  [d EXCEPT !.sections = RowsNotOf(@, law),
            !.schedules = RowsNotOf(@, law),
            !.appendices = RowsNotOf(@, law)]

\* Law.delete()
DeleteLaw(law) ==
  /\ pc = "ready"
  /\ law \in DOMAIN laws
  /\ pc' = "done"
  /\ laws' = [l \in DOMAIN laws \ {law} |-> laws[l]]
  /\ db' = Cascade(db, law)
  /\ last' = [NoLast EXCEPT !.op = "delete_law", !.qs = {law},
                            !.pre = db, !.preLaws = laws]
  /\ UNCHANGED <<meili, http, resp, users>>

\* The admin is ready for the next request; the one served is forgotten.
NextRequest ==
  /\ pc = "done"
  /\ pc' = "ready"
  /\ last' = NoLast
  /\ UNCHANGED <<laws, db, meili, http, resp, users>>

\* The tables have given out MaxRows ids at most.
WithinIds(d) ==
  (d.secId - 1) + (d.schId - 1) + (d.appId - 1) <= MaxRows

InitStore ==
  /\ laws = << >>
  /\ db = EmptyDB
  /\ last = NoLast
  /\ pc = "ready"
  /\ meili = NoMeili
  /\ http = NoRequest
  /\ resp = NoResponse
  /\ users = NoUsers

NextStore ==
  \/ \E t \in StoreTexts : CreateLaw(t)
  \/ \E k \in Openers, l \in DOMAIN laws : CreateRow(k, l) /\ WithinIds(db')
  \/ \E qs \in (SUBSET DOMAIN laws) \ {{}}, fuel \in 0..MaxFail :
       ImportFromAiText(qs, fuel) /\ WithinIds(db')
  \/ \E l \in DOMAIN laws : DeleteLaw(l)
  \/ NextRequest

StoreSpec == InitStore /\ [][NextStore]_vars

\* ------------------------------------------------------- views.search
\* The three collections, in the order the view queries them.
Collections == <<"sections", "schedules", "appendices">>

CollectionSet == { Collections[i] : i \in 1..Len(Collections) }

\* dict[key] = value
Put(d, key, value) == (key :> value) @@ d

\* dict.get(key, default)
Get(d, key, default) == IF key \in DOMAIN d THEN d[key] ELSE default

\* The {} that hit.get('_formatted', {}) falls back to.
EmptyDict == << >>

\* A document of a collection as the service returns it: its id, the id of
\* its law and the highlighted copy of its fields.
Hit(id, law) ==
  Put([id |-> id, law |-> law], "_formatted", [content |-> "<b>q</b>"])

\* Law 3 is in no Law table: a document left in the index after its law
\* was deleted.  The last hit has neither a law nor a highlighted copy.
GhostLaw == 3

\* A document of the shape build_section_doc gives: the law under law_id,
\* with the law's title and slug on the document and no law key.
LawIdHit ==
  [id |-> 5, result_type |-> "Section", law_id |-> 1, law_title |-> "Law 1",
   law_slug |-> "law-1"]

HitSet == { Hit(1, 1), Hit(2, 2), Hit(3, GhostLaw), [id |-> 4], LawIdHit }

HitSeqs == UNION { [1..n -> HitSet] : n \in 0..MaxHits }

\* What the three collections answer: a list of hits each.
HitLists ==
  { [sections |-> SubSeq(hs, 1, a), schedules |-> SubSeq(hs, a + 1, b),
     appendices |-> SubSeq(hs, b + 1, Len(hs))] :
      <<hs, a, b>> \in { t \in HitSeqs \X (0..MaxHits) \X (0..MaxHits) :
                          t[2] <= t[3] /\ t[3] <= Len(t[1]) } }

\* request.GET: without q, with an empty q, with a query.
Queries == { << >>, [q |-> << >>], [q |-> <<"c">>] }

\* Mutant of ResultType: every hit is called a Section.
ResultType_AllSection(c) == "Section"

ResultType(c) ==
  CASE c = "sections" -> "Section"
    [] c = "schedules" -> "Schedule"
    [] c = "appendices" -> "Appendix"

\* for hit in hits: hit['result_type'] = ...; hit['highlight'] = ...;
\* search_results.append(hit)
RECURSIVE Tagged(_, _)
Tagged(hits, c) ==
  IF hits = << >> THEN << >>
  ELSE << Put(Put(Head(hits), "result_type", ResultType(c)),
              "highlight", Get(Head(hits), "_formatted", EmptyDict)) >>
       \o Tagged(Tail(hits), c)

\* Mutant of Raises: a failing collection counts as one without hits.
Raises_Never(m, c) == FALSE

\* client.index(c).search(...) raises (the service is unreachable or
\* answers with an error).
Raises(m, c) == m.failing = c

\* ....search(query, search_options).get('hits', [])
HitsOf(m, c) == m.hits[c]

\* Lines 28-45: the collections are queried from the i-th on; an exception
\* leaves the view at the call that raised.
RECURSIVE Gather(_, _, _)
Gather(m, i, acc) ==
  IF i > Len(Collections) \/ acc.raised THEN acc
  ELSE LET c == Collections[i]
           called == [acc EXCEPT !.calls = Append(@, c)]
       IN IF Raises(m, c) THEN [called EXCEPT !.raised = TRUE]
          ELSE Gather(m, i + 1,
                      [called EXCEPT !.results = @ \o Tagged(HitsOf(m, c), c)])

\* {hit['law'] for hit in search_results if 'law' in hit}
LawIdsOf(results) ==
  { results[i].law : i \in { j \in 1..Len(results) : "law" \in DOMAIN results[j] } }

\* Law.objects.in_bulk(ids): the laws of these ids that exist, by id.
InBulk(table, ids) == [i \in ids \cap DOMAIN table |-> table[i]]

\* Mutant of LawFor: a hit without a law key is resolved through law_id.
LawFor_ReadsLawId(found, hit) ==
  IF "law" \in DOMAIN hit /\ hit.law \in DOMAIN found THEN hit.law
  ELSE IF "law_id" \in DOMAIN hit /\ hit.law_id \in DOMAIN found
       THEN hit.law_id ELSE 0

\* Mutant of LawFor: any law that was fetched will do.
LawFor_AnyFetched(found, hit) ==
  IF DOMAIN found = {} THEN 0 ELSE CHOOSE i \in DOMAIN found : TRUE

\* laws.get(hit.get('law')): the id of the law found for the hit, 0 if none.
LawFor(found, hit) ==
  IF "law" \in DOMAIN hit /\ hit.law \in DOMAIN found THEN hit.law ELSE 0

\* Mutant of NotFoundTitle: a hit without its law keeps an empty title.
NotFoundTitle_Empty == ""

NotFoundTitle == "Error: Law not found"

\* Lines 55-63.
RECURSIVE Hydrated(_, _)
Hydrated(results, found) ==
  IF results = << >> THEN << >>
  ELSE LET hit == Head(results)
           id == LawFor(found, hit)
       IN << IF id # 0
             THEN Put(Put(hit, "law_title", found[id].title),
                      "law_slug", found[id].slug)
             ELSE Put(Put(hit, "law_title", NotFoundTitle), "law_slug", "") >>
          \o Hydrated(Tail(results), found)

\* search_options, lines 22-26.
SearchOptions ==
  [attributesToHighlight |-> <<"*">>, highlightPreTag |-> "<b>",
   highlightPostTag |-> "</b>"]

\* Mutant of OptionsFor: the schedules are searched without highlighting.
OptionsFor_PlainSchedules(c) ==
  IF c = "schedules" THEN EmptyDict ELSE SearchOptions

\* The options client.index(c).search(query, search_options) is given.
OptionsFor(c) == SearchOptions

\* The search calls made, each with the arguments it was given.
Asked(calls, query) ==
  [i \in 1..Len(calls) |->
     [index |-> calls[i], query |-> query, options |-> OptionsFor(calls[i])]]

\* request.GET.get('q', '')
QueryOf(request) == Get(request.GET, "q", << >>)

\* Mutant of HasQuery: the collections are searched whatever the query.
HasQuery_Always(query) == TRUE

\* if query
HasQuery(query) == query # << >>

\* The view: what it returns (the rendered context, or nothing when an
\* exception left it) and the calls it made to the collections and to the
\* Law table.
SearchView(request, m, table) ==
  LET query == QueryOf(request)
      got == Gather(m, 1, [results |-> << >>, calls |-> << >>, raised |-> FALSE])
      ids == LawIdsOf(got.results)
  IN IF ~HasQuery(query)
     THEN [raised |-> FALSE, status |-> 200, query |-> query,
           results |-> << >>, searches |-> << >>, asked |-> << >>,
           lookups |-> << >>]
     ELSE IF got.raised
     THEN [raised |-> TRUE, searches |-> got.calls,
           asked |-> Asked(got.calls, query), lookups |-> << >>]
     ELSE [raised |-> FALSE, status |-> 200, query |-> query,
           results |-> Hydrated(got.results, InBulk(table, ids)),
           searches |-> got.calls, asked |-> Asked(got.calls, query),
           lookups |-> <<ids>>]

\* The two laws of the store a search request finds.
SearchLaws ==
  [l \in LawIds |->
     IF l = 1 THEN LawRow("Law 1", "law-1", << >>)
     ELSE LawRow("Law 2", "law-2", << >>)]

InitSearch ==
  /\ laws = SearchLaws
  /\ db = OldDB
  /\ last = NoLast
  /\ pc = "ready"
  /\ \E hs \in HitLists, f \in {"none"} \cup CollectionSet :
       meili = [hits |-> hs, failing |-> f]
  /\ \E g \in Queries : http = [op |-> "search", GET |-> g]
  /\ resp = NoResponse
  /\ users = NoUsers

Search ==
  /\ pc = "ready"
  /\ http.op = "search"
  /\ pc' = "done"
  /\ resp' = SearchView(http, meili, laws)
  /\ UNCHANGED <<laws, db, last, meili, http, users>>

SearchSpec == InitSearch /\ [][Search]_vars

\* ------------------------------------------------- vocabulary of the claims
\* The request was import_from_ai_text on exactly one law.
ImportedOne == last.op = "import" /\ Cardinality(last.qs) = 1

TheLaw == CHOOSE l \in last.qs : TRUE

\* The import ran to its end: the action reported success.
ImportSucceeded == ImportedOne /\ last.err = NoErr

\* The lines of the text the import read.
TextLines == SplitLines(laws[TheLaw].ai_prepared_text)

\* The positions of the lines of one of the given kinds.
LinesOfKind(lines, kinds) == { i \in 1..Len(lines) : Kind(lines[i]) \in kinds }

\* What a tag line carries after its tag.
LabelAt(lines, i) == TagArg(Strip(lines[i]))

RowCount(d, law) ==
  Len(RowsOf(d.sections, law)) + Len(RowsOf(d.schedules, law))
    + Len(RowsOf(d.appendices, law))

\* A table without its ids: what the rows say, in id order.
RECURSIVE WithoutIds(_)
WithoutIds(rows) ==
  IF rows = << >> THEN << >>
  ELSE <<[Head(rows) EXCEPT !.id = 0]>> \o WithoutIds(Tail(rows))

ContentOf(d, law) ==
  [sections |-> WithoutIds(RowsOf(d.sections, law)),
   schedules |-> WithoutIds(RowsOf(d.schedules, law)),
   appendices |-> WithoutIds(RowsOf(d.appendices, law))]

IdsOf(rows) == { rows[i].id : i \in 1..Len(rows) }

\* ----------------------------------------------------------------- C1
\* C1 (as claimed): after an import that ran to its end on a law with no
\* other records, the law has as many Section, Schedule and Appendix rows as
\* its text has @SECTION, @SCHEDULE and @APPENDIX lines.
C1_OneRecordPerDirective ==
  ImportSucceeded =>
    RowCount(db, TheLaw) = Cardinality(LinesOfKind(TextLines, Openers))

C3_RollbackOnFailure ==
  (ImportedOne /\ last.err.kind = "save") =>
    /\ db = last.pre
    /\ Len(last.messages) = 1
    /\ last.messages[1].level = "ERROR"
    /\ last.messages[1].err = last.err

\* The second create failed: one row had been written, three deleted.
C3_Witness ==
  /\ ImportedOne
  /\ last.err.kind = "save"
  /\ last.saved >= 1
  /\ RowCount(last.pre, TheLaw) = 3
  /\ RowCount(db, TheLaw) = 3

RECURSIVE NextStructural(_, _)
NextStructural(lines, i) ==
  IF i + 1 > Len(lines) THEN Len(lines) + 1
  ELSE IF Kind(lines[i + 1]) \in Structural THEN i + 1
  ELSE NextStructural(lines, i + 1)

RECURSIVE TextBetween(_, _, _)
TextBetween(lines, i, j) ==
  IF i >= j THEN << >>
  ELSE IF Kind(lines[i]) = "TEXT"
       THEN <<lines[i]>> \o TextBetween(lines, i + 1, j)
       ELSE TextBetween(lines, i + 1, j)

\* The content the claim gives the record opened on line i.
ClaimedContent(lines, i) ==
  Strip(Join(TextBetween(lines, i + 1, NextStructural(lines, i)), NL))

\* C5 (as claimed): after a successful import every row of the law is the
\* record of one opening line of its kind, with that line's number and, as
\* content, the lines up to the next structural tag that are no tag lines,
\* joined by line breaks and stripped at both ends.
C5_ContentBetweenDirectives ==
  ImportSucceeded =>
    LET lines == TextLines
        sec == RowsOf(db.sections, TheLaw)
        sch == RowsOf(db.schedules, TheLaw)
        app == RowsOf(db.appendices, TheLaw)
    IN /\ \A k \in 1..Len(sec) : \E i \in LinesOfKind(lines, {"SECTION"}) :
            /\ sec[k].section_number = LabelAt(lines, i)
            /\ sec[k].content = ClaimedContent(lines, i)
       /\ \A k \in 1..Len(sch) : \E i \in LinesOfKind(lines, {"SCHEDULE"}) :
            /\ sch[k].schedule_number = LabelAt(lines, i)
            /\ sch[k].content = ClaimedContent(lines, i)
       /\ \A k \in 1..Len(app) : \E i \in LinesOfKind(lines, {"APPENDIX"}) :
            /\ app[k].appendix_number = LabelAt(lines, i)
            /\ app[k].content = ClaimedContent(lines, i)

\* ----------------------------------------------------------------- C6
\* The label of the latest line of the given kind before line i, '' if none.
RECURSIVE LatestLabel(_, _, _)
LatestLabel(lines, i, kind) ==
  IF i <= 1 THEN << >>
  ELSE IF Kind(lines[i - 1]) = kind THEN LabelAt(lines, i - 1)
  ELSE LatestLabel(lines, i - 1, kind)

\* The latest @CHAPTER label before line i that no @PART line follows.
RECURSIVE ChapterInPart(_, _)
ChapterInPart(lines, i) ==
  IF i <= 1 THEN << >>
  ELSE IF Kind(lines[i - 1]) = "PART" THEN << >>
  ELSE IF Kind(lines[i - 1]) = "CHAPTER" THEN LabelAt(lines, i - 1)
  ELSE ChapterInPart(lines, i - 1)

PartAt(lines, i) == LatestLabel(lines, i, "PART")

\* Every Section row of the law is under the Part declared latest before
\* its @SECTION line and under the Chapter that `chapterAt` names there.
SectionsUnderDeclared(chapterAt(_, _)) ==
  LET lines == TextLines
      sec == RowsOf(db.sections, TheLaw)
  IN \A k \in 1..Len(sec) : \E i \in LinesOfKind(lines, {"SECTION"}) :
       /\ sec[k].section_number = LabelAt(lines, i)
       /\ sec[k].part_heading = PartAt(lines, i)
       /\ sec[k].chapter_heading = chapterAt(lines, i)

LatestChapter(lines, i) == LatestLabel(lines, i, "CHAPTER")

\* C6 (as claimed): after a successful import every Section row carries the
\* Part and Chapter labels that were current when its @SECTION line was
\* read, whether "current chapter" means the latest @CHAPTER of the current
\* Part or the latest @CHAPTER line of the text.
C6_SectionKeepsDeclaredAncestors ==
  ImportSucceeded =>
    \/ SectionsUnderDeclared(ChapterInPart)
    \/ SectionsUnderDeclared(LatestChapter)

\* ----------------------------------------------------------------- C7
\* C7 (as claimed): after a successful import no Section row of the law has
\* an empty Part heading or an empty Chapter heading ("Main" stands in).
C7_NoEmptyHeading ==
  ImportSucceeded =>
    LET sec == RowsOf(db.sections, TheLaw)
    IN \A k \in 1..Len(sec) :
         sec[k].part_heading # << >> /\ sec[k].chapter_heading # << >>

\* ----------------------------------------------------------------- C8
\* C8 (as claimed): after a successful import the law has as many Parts
\* (distinct part headings of its Section rows) as its @SECTION lines have
\* distinct Part labels, and as many Chapters (distinct pairs of part and
\* chapter heading) as they have distinct pairs of labels.
C8_OnePartPerHeading ==
  ImportSucceeded =>
    LET lines == TextLines
        sec == RowsOf(db.sections, TheLaw)
        at == LinesOfKind(lines, {"SECTION"})
        parts == { sec[k].part_heading : k \in 1..Len(sec) }
        chapters == { <<sec[k].part_heading, sec[k].chapter_heading>> :
                        k \in 1..Len(sec) }
    IN /\ Cardinality(parts) = Cardinality({ PartAt(lines, i) : i \in at })
       /\ \/ Cardinality(chapters)
               = Cardinality({ <<PartAt(lines, i), ChapterInPart(lines, i)>> :
                                 i \in at })
          \/ Cardinality(chapters)
               = Cardinality({ <<PartAt(lines, i), LatestChapter(lines, i)>> :
                                 i \in at })

\* ----------------------------------------------------------------- C9
\* No record is open at line i: no opening line precedes it, or a @PART or
\* @CHAPTER line came after the latest one.
RECURSIVE NoRecordOpenAt(_, _)
NoRecordOpenAt(lines, i) ==
  IF i <= 1 THEN TRUE
  ELSE IF Kind(lines[i - 1]) \in {"PART", "CHAPTER"} THEN TRUE
  ELSE IF Kind(lines[i - 1]) \in Openers THEN FALSE
  ELSE NoRecordOpenAt(lines, i - 1)

IdleTitles(lines) ==
  { i \in LinesOfKind(lines, {"TITLE"}) : NoRecordOpenAt(lines, i) }

RemoveAt(seq, i) == SubSeq(seq, 1, i - 1) \o SubSeq(seq, i + 1, Len(seq))

\* C9: a @TITLE line read while no record is open leaves no trace: the rows
\* of the law after a successful import are the rows the same text gives
\* without that line (no row more, no title changed).
C9_IdleTitleHasNoEffect ==
  ImportSucceeded =>
    \A i \in IdleTitles(TextLines) :
      ContentOf(db, TheLaw)
        = ContentOf(ParseLines(NewEnv(EmptyDB, 0), RemoveAt(TextLines, i),
                               TheLaw).db, TheLaw)

\* A @TITLE line with no record open, in a text that also opens a record.
C9_Witness ==
  /\ ImportSucceeded
  /\ IdleTitles(TextLines) # {}
  /\ RowsOf(db.sections, TheLaw) # << >>

\* ---------------------------------------------------------------- C10
\* C10: the import action leaves the Law table as it was, whether it reports
\* success or an error, and the rows of every other law as they were.
C10_LawRowUntouched ==
  (last.op = "import") =>
    /\ laws = last.preLaws
    /\ ImportedOne =>
         /\ RowsNotOf(db.sections, TheLaw)
              = RowsNotOf(last.pre.sections, TheLaw)
         /\ RowsNotOf(db.schedules, TheLaw)
              = RowsNotOf(last.pre.schedules, TheLaw)
         /\ RowsNotOf(db.appendices, TheLaw)
              = RowsNotOf(last.pre.appendices, TheLaw)

\* A successful import that replaced a law's rows beside another law's rows.
C10_Witness ==
  /\ ImportSucceeded
  /\ RowCount(db, TheLaw) > 0
  /\ \E l \in LawIds \ {TheLaw} : RowCount(db, l) = 3


\* ---------------------------------------------------------------- C11
\* C11: import_from_ai_text on a selection of more than one law reports one
\* ERROR message and changes nothing: every table and the Law table are as
\* before, no row of a selected law is gone and no row was created.
C11_MultiSelectChangesNothing ==
  (last.op = "import" /\ Cardinality(last.qs) > 1) =>
    /\ db = last.pre
    /\ laws = last.preLaws
    /\ last.saved = 0
    /\ \A l \in last.qs : RowCount(db, l) = RowCount(last.pre, l)
    /\ Len(last.messages) = 1
    /\ last.messages[1].level = "ERROR"
    /\ last.messages[1].text
         = "This action can only be run on one law at a time."

\* Two laws selected, both with rows and both with a text that would import.
C11_Witness ==
  /\ last.op = "import"
  /\ last.qs = {1, 2}
  /\ \A l \in last.qs : RowCount(db, l) = 3
  /\ \A l \in last.qs : ~TextIsEmpty(laws[l].ai_prepared_text)


\* --------------------------------------------------- views.law_detail
\* Mutant of GetObject: an unknown slug is answered with some law.
GetObject_AnyLaw(table, slug) ==
  IF \E l \in DOMAIN table : table[l].slug = slug
  THEN { l \in DOMAIN table : table[l].slug = slug }
  ELSE { CHOOSE l \in DOMAIN table : TRUE }

\* The laws get_object_or_404(Law, slug=law_slug) finds: none (Http404) or
\* one, slug being unique.
GetObject(table, slug) == { l \in DOMAIN table : table[l].slug = slug }

\* rows with row inserted before the first row of a higher id.
RECURSIVE InsertById(_, _)
InsertById(rows, row) ==
  IF rows = << >> THEN <<row>>
  ELSE IF row.id < Head(rows).id THEN <<row>> \o rows
  ELSE <<Head(rows)>> \o InsertById(Tail(rows), row)

\* .order_by('id')
RECURSIVE OrderById(_)
OrderById(rows) ==
  IF rows = << >> THEN << >>
  ELSE InsertById(OrderById(Tail(rows)), Head(rows))

\* The view: 404 when no law has the slug, else the law and its rows by id.
LawDetailView(slug, table, d) ==
  LET found == GetObject(table, slug)
      law == CHOOSE l \in found : TRUE
  IN IF found = {} THEN [raised |-> FALSE, status |-> 404]
     ELSE [raised |-> FALSE, status |-> 200,
           context |-> [law |-> law,
                        sections |-> OrderById(RowsOf(d.sections, law)),
                        schedules |-> OrderById(RowsOf(d.schedules, law)),
                        appendices |-> OrderById(RowsOf(d.appendices, law))]]

\* The Section rows the store may hold: of either law, in Part A or B, in
\* Chapter X, numbered 1 or 2.
DetailRows ==
  { [law |-> l, part |-> p, number |-> n] :
      l \in LawIds, p \in {<<"A">>, <<"B">>}, n \in {<<"1">>, <<"2">>} }

\* The Section table after these rows were created one after the other.
SectionTable(rs) ==
  [i \in 1..Len(rs) |->
     SectionRow(i, rs[i].law, rs[i].part, <<"X">>, rs[i].number, << >>, << >>)]

\* The slugs a reader may ask for: the two laws', and one of no law.
Slugs == {"law-1", "law-2", "no-law"}

InitDetail ==
  /\ laws = SearchLaws
  /\ \E n \in 0..MaxSections : \E rs \in [1..n -> DetailRows] :
       db = [OldDB EXCEPT !.sections = SectionTable(rs), !.secId = n + 1]
  /\ last = NoLast
  /\ pc = "ready"
  /\ meili = NoMeili
  /\ \E slug \in Slugs : http = [op |-> "law_detail", law_slug |-> slug]
  /\ resp = NoResponse
  /\ users = NoUsers

LawDetail ==
  /\ pc = "ready"
  /\ http.op = "law_detail"
  /\ pc' = "done"
  /\ resp' = LawDetailView(http.law_slug, laws, db)
  /\ UNCHANGED <<laws, db, last, meili, http, users>>

DetailSpec == InitDetail /\ [][LawDetail]_vars

\* ------------------------------------- meili_indexer.rebuild_meili_index
\* The calls of setup_index, in order.
SetupCalls ==
  << [call |-> "update_searchable_attributes"],
     [call |-> "update_displayed_attributes"],
     [call |-> "update_filterable_attributes"] >>

\* The relations of Section a query can follow: its foreign keys.
SectionRelations == {"law"}

\* select_related("chapter", "chapter__part", "chapter__part__law")
SelectRelated ==
  { <<"chapter">>, <<"chapter", "part">>, <<"chapter", "part", "law">> }

\* The query raises FieldError when it is run if a name given to
\* select_related is no relation of the model.
QueryRaises(paths) == \E p \in paths : p[1] \notin SectionRelations

\* build_section_doc raises AttributeError on section.chapter when the row
\* has no such attribute.
DocRaises(row) == "chapter" \notin DOMAIN row

\* build_section_doc for a row that has a chapter.
BuildSectionDoc(row, table) ==
  LET law == row.chapter.part.law
  IN [id |-> <<"section-", row.id>>, result_type |-> "Section",
      law_id |-> law, law_title |-> table[law].title,
      law_slug |-> table[law].slug, content |-> row.content]

RECURSIVE BuildDocs(_, _)
BuildDocs(rows, table) ==
  IF rows = << >> THEN << >>
  ELSE <<BuildSectionDoc(Head(rows), table)>> \o BuildDocs(Tail(rows), table)

\* rebuild_meili_index: what it returns, or that it raised, and the calls
\* it made on the index.
RebuildMeiliIndex(d, table) ==
  IF QueryRaises(SelectRelated) \/ \E i \in 1..Len(d.sections) : DocRaises(d.sections[i])
  THEN [raised |-> TRUE, calls |-> SetupCalls]
  ELSE LET docs == BuildDocs(d.sections, table)
       IN [raised |-> FALSE,
           calls |-> Append(SetupCalls, [call |-> "add_documents", docs |-> docs]),
           returned |-> Len(docs)]

\* --------------------------------- management command repair_search_index
\* Mutant of SyncOrder: the schedules are synced first.
SyncOrder_SchedulesFirst == <<"laws.Schedule", "laws.Section", "laws.Appendix">>

\* The models synced, in the order of the calls of syncindex.
SyncOrder == <<"laws.Section", "laws.Schedule", "laws.Appendix">>

Out(text) == [kind |-> "out", text |-> text, count |-> 0]

\* f"   Success: {count} laws repaired."
OutCount(count) ==
  [kind |-> "out", text |-> "Success: {count} laws repaired.", count |-> count]

Sync(model) == [kind |-> "sync", text |-> model, count |-> 0]

\* Law.save(): if not self.slug: self.slug = slugify(self.title)
SaveLaw(row) ==
  IF row.slug = "" THEN [row EXCEPT !.slug = Slugify(row.title)] ELSE row

\* Lines 11-18: the laws by id from the i-th on; a law with an empty slug is
\* saved and counted.
RECURSIVE RepairSlugs(_, _, _)
RepairSlugs(table, ids, acc) ==
  IF ids = {} THEN acc
  ELSE LET l == CHOOSE x \in ids : \A y \in ids : x <= y
           fix == table[l].slug = ""
       IN RepairSlugs(table, ids \ {l},
            IF fix
            THEN [laws |-> [acc.laws EXCEPT ![l] = SaveLaw(@)],
                  count |-> acc.count + 1,
                  events |-> Append(acc.events, Out("Fixed slug for: {title}"))]
            ELSE acc)

\* The i-th call of syncindex raises.
SyncRaises(failAt, i) == failAt = i

\* Lines 24-37: the syncs from the i-th on, inside the try.
RECURSIVE SyncAll(_, _, _)
SyncAll(failAt, i, events) ==
  IF i > Len(SyncOrder)
  THEN Append(events, Out("DONE: Index is fully synchronized."))
  ELSE LET told == Append(events, Out("Syncing " \o SyncOrder[i]))
           called == Append(told, Sync(SyncOrder[i]))
       IN IF SyncRaises(failAt, i)
          THEN Append(called, Out("Index sync failed: {e}"))
          ELSE SyncAll(failAt, i + 1, called)

\* Command.handle: the laws after it, and what it wrote and called, in order.
RepairHandle(table, failAt) ==
  LET fixed == RepairSlugs(table, DOMAIN table,
                 [laws |-> table, count |-> 0,
                  events |-> <<Out("1. Checking Law Slugs...")>>])
      counted == fixed.events \o
                   << OutCount(fixed.count),
                      Out("2. Syncing Search Index (This may take time)...") >>
  IN [laws |-> fixed.laws, raised |-> FALSE, failAt |-> failAt,
      events |-> SyncAll(failAt, 1, counted)]

\* The Law tables the commands may find: one law at most has an empty slug
\* (the column is unique).
SlugTables ==
  { [l \in LawIds |-> LawRow(TitleOf(l), sl[l], << >>)] :
      sl \in { f \in [LawIds -> {"", "law-1", "law-2"}] :
                /\ f[1] # f[2]
                /\ \A l \in LawIds : f[l] \in {"", Slugify(TitleOf(l))} } }

InitIndex ==
  /\ \E t \in SlugTables : laws = t
  /\ \E n \in 0..MaxSections : \E rs \in [1..n -> DetailRows] :
       db = [OldDB EXCEPT !.sections = SectionTable(rs), !.secId = n + 1]
  /\ last = NoLast
  /\ pc = "ready"
  /\ meili = NoMeili
  /\ http = NoRequest
  /\ resp = NoResponse
  /\ users = NoUsers

RebuildMeili ==
  /\ pc = "ready"
  /\ pc' = "done"
  /\ last' = [NoLast EXCEPT !.op = "rebuild_meili", !.pre = db, !.preLaws = laws]
  /\ resp' = RebuildMeiliIndex(db, laws)
  /\ UNCHANGED <<laws, db, meili, http, users>>

RepairSearchIndex(failAt) ==
  /\ pc = "ready"
  /\ pc' = "done"
  /\ last' = [NoLast EXCEPT !.op = "repair_search_index", !.pre = db,
                            !.preLaws = laws]
  /\ laws' = RepairHandle(laws, failAt).laws
  /\ resp' = RepairHandle(laws, failAt)
  /\ UNCHANGED <<db, meili, http, users>>

NextIndex ==
  \/ RebuildMeili
  \/ \E failAt \in 0..Len(SyncOrder) : RepairSearchIndex(failAt)

IndexSpec == InitIndex /\ [][NextIndex]_vars

\* -------------------------------------------------- LawAdmin.clean_with_ai
\* response.text of a call of generate_content that does not raise.
AiAnswer == <<"@SECTION", SP, "1", NL, "a">>

\* if not law.extracted_text
NoExtractedText(row) == row.extracted_text \in {NoneText, << >>}

\* Lines 352-365: the laws of the queryset by id; acc holds the Law table,
\* the calls of generate_content, the messages and updated_count.
RECURSIVE CleanLaws(_, _, _)
CleanLaws(ids, answers, acc) ==
  IF ids = {} THEN acc
  ELSE LET l == CHOOSE x \in ids : \A y \in ids : x <= y
           row == acc.laws[l]
           rest == ids \ {l}
       IN IF NoExtractedText(row)
          THEN CleanLaws(rest, answers,
                 [acc EXCEPT !.messages = Append(@,
                    Message("WARNING", "Law '{title}' has no extracted text to clean.",
                            NoErr, row.title))])
          ELSE IF answers[l] = "raise"
          THEN CleanLaws(rest, answers,
                 [acc EXCEPT !.generated = Append(@, l),
                             !.messages = Append(@,
                    Message("ERROR", "Error cleaning '{title}': {e}", NoErr,
                            row.title))])
          ELSE CleanLaws(rest, answers,
                 [acc EXCEPT !.generated = Append(@, l),
                             !.laws[l].ai_prepared_text = AiAnswer,
                             !.updated = @ + 1])

\* The action: the Law table after it, how often genai.GenerativeModel was
\* instantiated, the laws generate_content was called for, the messages.
CleanHandle(table, qs, key, answers) ==
  IF key = ""
  THEN [laws |-> table, instantiated |-> 0, generated |-> << >>, updated |-> 0,
        messages |-> << Message("ERROR",
                          "GEMINI_API_KEY is not configured in settings.",
                          NoErr, "") >>]
  ELSE LET done == CleanLaws(qs, answers,
                     [laws |-> table, instantiated |-> 1, generated |-> << >>,
                      updated |-> 0, messages |-> << >>])
       IN IF done.updated > 0
          THEN [done EXCEPT !.messages = Append(@,
                  Message("SUCCESS",
                    "Successfully cleaned and prepared text for {updated_count} law(s). Please review the text, then run Step 2.",
                    NoErr, ""))]
          ELSE done

\* The Law tables the action may find: each law with or without extracted
\* text, with or without a prepared text.
CleanTables ==
  { [l \in LawIds |->
       [LawRow(TitleOf(l), Slugify(TitleOf(l)), tx[l][2])
          EXCEPT !.extracted_text = tx[l][1]]] :
      tx \in [LawIds -> {NoneText, << >>, <<"r", "a", "w">>}
                          \X {NoneText, <<"o">>}] }

InitClean ==
  /\ \E t \in CleanTables : laws = t
  /\ db = OldDB
  /\ last = NoLast
  /\ pc = "ready"
  /\ meili = NoMeili
  /\ http = NoRequest
  /\ resp = NoResponse
  /\ users = NoUsers

CleanWithAi(qs, key, answers) ==
  /\ pc = "ready"
  /\ pc' = "done"
  /\ laws' = CleanHandle(laws, qs, key, answers).laws
  /\ last' = [NoLast EXCEPT !.op = "clean_with_ai", !.qs = qs, !.pre = db,
                            !.preLaws = laws,
                            !.messages = CleanHandle(laws, qs, key, answers).messages]
  /\ resp' = [raised |-> FALSE, key |-> key,
              instantiated |-> CleanHandle(laws, qs, key, answers).instantiated,
              generated |-> CleanHandle(laws, qs, key, answers).generated]
  /\ UNCHANGED <<db, meili, http, users>>

NextClean ==
  \E qs \in (SUBSET LawIds) \ {{}}, key \in {"", "k"},
     answers \in [LawIds -> {"text", "raise"}] :
    CleanWithAi(qs, key, answers)

CleanSpec == InitClean /\ [][NextClean]_vars

\* ------------------------------------------ management command init_admin
\* os.getenv(name, default) on the environment of one run.
Getenv(env, name, default) == IF name \in DOMAIN env THEN env[name] ELSE default

\* The password as create_superuser stores it.
MakePassword(password) == <<"hash", password>>

UserRow(id, username, email, password) ==
  [id |-> id, username |-> username, email |-> email,
   password |-> MakePassword(password), is_superuser |-> TRUE]

\* User.objects.filter(username=admin_username).exists()
UserExists(us, username) == \E i \in 1..Len(us) : us[i].username = username

\* Mutant of InitAdminHandle: a user found is given the configured password
\* and email.
InitAdminHandle_Resets(us, env) ==
  LET username == Getenv(env, "DJANGO_ADMIN_USERNAME", "admin")
      email == Getenv(env, "DJANGO_ADMIN_EMAIL", "admin@ekitilaw.com")
      password == Getenv(env, "DJANGO_ADMIN_PASSWORD", "changeme123")
  IN IF UserExists(us, username)
     THEN [users |-> [i \in 1..Len(us) |->
                        IF us[i].username = username
                        THEN [us[i] EXCEPT !.email = email,
                                           !.password = MakePassword(password)]
                        ELSE us[i]],
           created |-> FALSE]
     ELSE [users |-> Append(us, UserRow(Len(us) + 1, username, email, password)),
           created |-> TRUE]

\* Command.handle: the user table after it, and whether it created the user.
InitAdminHandle(us, env) ==
  LET username == Getenv(env, "DJANGO_ADMIN_USERNAME", "admin")
      email == Getenv(env, "DJANGO_ADMIN_EMAIL", "admin@ekitilaw.com")
      password == Getenv(env, "DJANGO_ADMIN_PASSWORD", "changeme123")
  IN IF UserExists(us, username)
     THEN [users |-> us, created |-> FALSE]
     ELSE [users |-> Append(us, UserRow(Len(us) + 1, username, email, password)),
           created |-> TRUE]

\* The environments of a run: each variable set or not.
Envs ==
  { [n \in names |-> vals[n]] :
      names \in SUBSET {"DJANGO_ADMIN_USERNAME", "DJANGO_ADMIN_EMAIL",
                        "DJANGO_ADMIN_PASSWORD"},
      vals \in { [DJANGO_ADMIN_USERNAME |-> "root", DJANGO_ADMIN_EMAIL |-> "e",
                  DJANGO_ADMIN_PASSWORD |-> "p"] } }

\* The user tables of a first deploy: empty, or with an admin made by hand.
FirstUsers == { << >>, <<UserRow(1, "admin", "own", "own")>> }

InitUsers ==
  /\ laws = SearchLaws
  /\ db = OldDB
  /\ last = NoLast
  /\ pc = "ready"
  /\ meili = NoMeili
  /\ http = NoRequest
  /\ resp = NoResponse
  /\ users \in FirstUsers

InitAdmin(env) ==
  /\ pc = "ready"
  /\ pc' = "done"
  /\ users' = InitAdminHandle(users, env).users
  /\ resp' = [raised |-> FALSE, op |-> "init_admin", env |-> env,
              preUsers |-> users,
              created |-> InitAdminHandle(users, env).created]
  /\ UNCHANGED <<laws, db, last, meili, http>>

NextAdmin ==
  \/ \E env \in Envs : InitAdmin(env)
  \/ NextRequest

AdminSpec == InitUsers /\ [][NextAdmin]_vars

\* ------------------------------------------ vocabulary of the search claims
Searched == http.op = "search" /\ pc = "done"

\* The query string the request carried, '' when it carried none.
AskedFor == IF "q" \in DOMAIN http.GET THEN http.GET.q ELSE << >>

\* What the collections hold for the request, in the order sections,
\* schedules, appendices.
AllHits == meili.hits.sections \o meili.hits.schedules \o meili.hits.appendices

\* The keys the view sets on a hit.
ViewKeys == {"result_type", "highlight", "law_title", "law_slug"}

\* A hit or a result without the keys the view sets: what the service gave.
AsReturned(d) == [k \in DOMAIN d \ ViewKeys |-> d[k]]

\* The first i collections.
FirstCollections(i) == SubSeq(Collections, 1, i)

\* ---------------------------------------------------------------- C12
\* C12: a search request with no q or an empty q is answered with an empty
\* result list, and the view calls no collection and looks up no law.
C12_EmptyQueryNoCalls ==
  (Searched /\ AskedFor = << >>) =>
    /\ ~resp.raised
    /\ resp.status = 200
    /\ resp.results = << >>
    /\ resp.searches = << >>
    /\ resp.lookups = << >>

\* A request without q while every collection would have answered with hits.
C12_Witness ==
  /\ Searched
  /\ "q" \notin DOMAIN http.GET
  /\ meili.failing = "none"
  /\ AllHits # << >>

\* ---------------------------------------------------------------- C13
\* C13: when no collection raises, the results of a non-empty query are the
\* section hits, then the schedule hits, then the appendix hits, each list
\* in the order returned and complete (repeated hits included), and each
\* result is marked Section, Schedule or Appendix after its collection.
C13_ConcatenationInOrder ==
  (Searched /\ AskedFor # << >> /\ meili.failing = "none") =>
    LET nsec == Len(meili.hits.sections)
        nsch == Len(meili.hits.schedules)
        napp == Len(meili.hits.appendices)
    IN /\ ~resp.raised
       /\ Len(resp.results) = nsec + nsch + napp
       /\ \A i \in 1..Len(resp.results) :
            /\ AsReturned(resp.results[i]) = AsReturned(AllHits[i])
            /\ resp.results[i].result_type
                 = IF i <= nsec THEN "Section"
                   ELSE IF i <= nsec + nsch THEN "Schedule" ELSE "Appendix"

\* Hits from all three collections in one answer.
C13_Witness ==
  /\ Searched
  /\ AskedFor # << >>
  /\ meili.failing = "none"
  /\ \A c \in CollectionSet : meili.hits[c] # << >>
  /\ Len(resp.results) = Len(AllHits)

\* ---------------------------------------------------------------- C14
\* C14: every result whose law id is the id of a law in the Law table
\* carries the title and the slug of that law.
C14_OwnLawAttached ==
  (Searched /\ ~resp.raised) =>
    \A i \in 1..Len(resp.results) :
      LET r == resp.results[i]
      IN ("law" \in DOMAIN r /\ r.law \in DOMAIN laws) =>
           /\ r.law_title = laws[r.law].title
           /\ r.law_slug = laws[r.law].slug

\* Hits of two different laws in one result list.
C14_Witness ==
  /\ Searched
  /\ ~resp.raised
  /\ \E i, j \in 1..Len(resp.results) :
       /\ "law" \in DOMAIN resp.results[i] /\ resp.results[i].law = 1
       /\ "law" \in DOMAIN resp.results[j] /\ resp.results[j].law = 2

\* ---------------------------------------------------------------- C15
\* C15: when no collection raises, a result whose law id is in no row of the
\* Law table gets the title "Error: Law not found" and an empty slug, the
\* request is answered with 200, and the results of existing laws in the
\* same list carry their law's title and slug.
C15_GhostLawSentinel ==
  (Searched /\ AskedFor # << >> /\ meili.failing = "none") =>
    /\ ~resp.raised
    /\ resp.status = 200
    /\ \A i \in 1..Len(resp.results) :
         LET r == resp.results[i]
         IN "law" \in DOMAIN r =>
              IF r.law \in DOMAIN laws
              THEN r.law_title = laws[r.law].title /\ r.law_slug = laws[r.law].slug
              ELSE r.law_title = "Error: Law not found" /\ r.law_slug = ""

\* A hit of a deleted law beside a hit of an existing one.
C15_Witness ==
  /\ Searched
  /\ ~resp.raised
  /\ \E i, j \in 1..Len(resp.results) :
       /\ "law" \in DOMAIN resp.results[i] /\ resp.results[i].law = GhostLaw
       /\ "law" \in DOMAIN resp.results[j] /\ resp.results[j].law = 1
       /\ resp.results[j].law_title = "Law 1"

\* ---------------------------------------------------------------- C16
\* C16: when the call to one collection raises, the view is left by the
\* exception: it returns no result list, it has queried the collections up
\* to the failing one and none after it, and it has looked up no law.
C16_SearchErrorPropagates ==
  (Searched /\ AskedFor # << >> /\ meili.failing # "none") =>
    /\ resp.raised
    /\ "results" \notin DOMAIN resp
    /\ \E i \in 1..Len(Collections) :
         /\ Collections[i] = meili.failing
         /\ resp.searches = FirstCollections(i)
    /\ resp.lookups = << >>

\* The second collection fails after the first answered with hits.
C16_Witness ==
  /\ Searched
  /\ AskedFor # << >>
  /\ meili.failing = "schedules"
  /\ meili.hits.sections # << >>
  /\ meili.hits.appendices # << >>
  /\ resp.raised


\* ---------------------------------------------------------------- C17
\* The laws the rows of a table refer to.
LawsOf(rows) == { rows[i].law : i \in 1..Len(rows) }

\* C17: in every state of a history of creations, imports and deletions,
\* every Section, Schedule and Appendix row refers to a row of the Law table;
\* and after a law was deleted it has no row left, while the rows of the
\* other laws are as they were.
C17_NoOrphans ==
  /\ LawsOf(db.sections) \cup LawsOf(db.schedules) \cup LawsOf(db.appendices)
       \subseteq DOMAIN laws
  /\ last.op = "delete_law" =>
       /\ TheLaw \notin DOMAIN laws
       /\ RowCount(db, TheLaw) = 0
       /\ \A l \in DOMAIN laws :
            ContentOf(db, l) = ContentOf(last.pre, l)

\* A law with rows of all three kinds was deleted beside a law with rows.
C17_Witness ==
  /\ last.op = "delete_law"
  /\ RowsOf(last.pre.sections, TheLaw) # << >>
  /\ RowsOf(last.pre.schedules, TheLaw) # << >>
  /\ RowsOf(last.pre.appendices, TheLaw) # << >>
  /\ \E l \in DOMAIN laws : RowCount(db, l) > 0

\* ---------------------------------------------------------------- C18
\* C18 (as claimed): in every state of the store no two Section rows of one
\* law with the same part and chapter heading have the same section number.
C18_UniqueSectionNumbers ==
  \A i, j \in 1..Len(db.sections) :
    (/\ i # j
     /\ db.sections[i].law = db.sections[j].law
     /\ db.sections[i].part_heading = db.sections[j].part_heading
     /\ db.sections[i].chapter_heading = db.sections[j].chapter_heading)
      => db.sections[i].section_number # db.sections[j].section_number


\* ---------------------------------------------------------------- C19
Detailed == http.op = "law_detail" /\ pc = "done"

\* Where a Section row stands in the hierarchy: the rank of its Part, of its
\* Chapter and of its number ("A" before "B", "1" before "2").
RankOf(label) ==
  CASE label \in {<<"A">>, <<"1">>} -> 1
    [] label \in {<<"B">>, <<"2">>} -> 2
    [] OTHER -> 0

PlaceOf(row) ==
  <<RankOf(row.part_heading), RankOf(row.chapter_heading),
    RankOf(row.section_number)>>

\* Place p is not after place q: part first, then chapter, then section.
NotAfter(p, q) ==
  \/ p[1] < q[1]
  \/ p[1] = q[1] /\ p[2] < q[2]
  \/ p[1] = q[1] /\ p[2] = q[2] /\ p[3] <= q[3]

\* C19 (as claimed): the law-detail view lists the sections of the law by
\* Part, then Chapter, then section, in whatever order they were created.
C19_SectionsInHierarchyOrder ==
  (Detailed /\ resp.status = 200) =>
    \A i, j \in 1..Len(resp.context.sections) :
      i < j => NotAfter(PlaceOf(resp.context.sections[i]),
                        PlaceOf(resp.context.sections[j]))

\* ---------------------------------------------------------------- C20
\* The positions of the rows of a table that belong to a law.
PositionsOf(table, law) == { i \in 1..Len(table) : table[i].law = law }

\* The rows listed are rows of the law, each row of the law once.
ExactlyRowsOf(listed, table, law) ==
  /\ \A i \in 1..Len(listed) : listed[i].law = law
  /\ \A i \in PositionsOf(table, law) :
       Cardinality({ k \in 1..Len(listed) : listed[k] = table[i] }) = 1
  /\ Len(listed) = Cardinality(PositionsOf(table, law))

\* C20: a law-detail request for a slug that no law has is answered 404
\* without a context; a request for the slug of a law is answered 200 with
\* that law and exactly its sections, schedules and appendices.
C20_DetailOfOneLaw ==
  Detailed =>
    IF \A l \in DOMAIN laws : laws[l].slug # http.law_slug
    THEN resp.status = 404 /\ "context" \notin DOMAIN resp
    ELSE /\ resp.status = 200
         /\ laws[resp.context.law].slug = http.law_slug
         /\ ExactlyRowsOf(resp.context.sections, db.sections, resp.context.law)
         /\ ExactlyRowsOf(resp.context.schedules, db.schedules, resp.context.law)
         /\ ExactlyRowsOf(resp.context.appendices, db.appendices, resp.context.law)

\* The detail of a law whose sections were created between another law's.
C20_Witness ==
  /\ Detailed
  /\ resp.status = 200
  /\ Len(resp.context.sections) >= 2
  /\ \E i \in 1..Len(db.sections) : db.sections[i].law # resp.context.law
  /\ \E i \in 1..Len(db.schedules) : db.schedules[i].law # resp.context.law


\* ---------------------------------------------------------------- C24
\* C24 (as claimed): when every @SECTION line of the text follows a @PART
\* line with no @CHAPTER line in between, every Section row of the law has
\* an empty chapter heading after a successful import, whatever @CHAPTER
\* lines came before those @PART lines.
C24_PartResetsChapter ==
  (/\ ImportSucceeded
   /\ \A i \in LinesOfKind(TextLines, {"SECTION"}) :
        PartAt(TextLines, i) # << >> /\ ChapterInPart(TextLines, i) = << >>) =>
    LET sec == RowsOf(db.sections, TheLaw)
    IN \A k \in 1..Len(sec) : sec[k].chapter_heading = << >>

\* ---------------------------------------------------------------- C25
\* The label of the last @TITLE line between line i and line j, '' if none.
RECURSIVE LastTitle(_, _, _)
LastTitle(lines, i, j) ==
  IF j <= i + 1 THEN << >>
  ELSE IF Kind(lines[j - 1]) = "TITLE" THEN LabelAt(lines, j - 1)
  ELSE LastTitle(lines, i, j - 1)

\* The title the claim gives the record opened on line i.
ClaimedTitle(lines, i) == LastTitle(lines, i, NextStructural(lines, i))

\* The opening lines of a record that has a @TITLE line.
TitledOpeners(lines, kind) ==
  { i \in LinesOfKind(lines, {kind}) :
      \E j \in LinesOfKind(lines, {"TITLE"}) :
        i < j /\ j < NextStructural(lines, i) }

\* C25 (as claimed): after a successful import of a text whose records all
\* have a @TITLE line, every row of the law is the record of one opening
\* line: its title is the label of the record's last @TITLE line and its
\* content is made of all the text lines of the record, those before and
\* those after the @TITLE lines.
C25_TitleChangesTitleOnly ==
  (/\ ImportSucceeded
   /\ \A kind \in Openers :
        TitledOpeners(TextLines, kind) = LinesOfKind(TextLines, {kind})) =>
    LET lines == TextLines
        sec == RowsOf(db.sections, TheLaw)
        sch == RowsOf(db.schedules, TheLaw)
        app == RowsOf(db.appendices, TheLaw)
    IN /\ \A k \in 1..Len(sec) : \E i \in TitledOpeners(lines, "SECTION") :
            /\ sec[k].section_title = ClaimedTitle(lines, i)
            /\ sec[k].content = ClaimedContent(lines, i)
       /\ \A k \in 1..Len(sch) : \E i \in TitledOpeners(lines, "SCHEDULE") :
            /\ sch[k].title = ClaimedTitle(lines, i)
            /\ sch[k].content = ClaimedContent(lines, i)
       /\ \A k \in 1..Len(app) : \E i \in TitledOpeners(lines, "APPENDIX") :
            /\ app[k].title = ClaimedTitle(lines, i)
            /\ app[k].content = ClaimedContent(lines, i)

\* ---------------------------------------------------------------- C26
\* The text lines read while no record is open.
IdleTexts(lines) ==
  { i \in LinesOfKind(lines, {"TEXT"}) : NoRecordOpenAt(lines, i) }

\* C26: a line that is no tag line and is read while no record is open is
\* discarded: after a successful import the rows of the law are the rows the
\* same text gives without that line.
C26_IdleTextDiscarded ==
  ImportSucceeded =>
    \A i \in IdleTexts(TextLines) :
      ContentOf(db, TheLaw)
        = ContentOf(ParseLines(NewEnv(EmptyDB, 0), RemoveAt(TextLines, i),
                               TheLaw).db, TheLaw)

\* A text line before the first opening line, not blank, in a text that
\* opens a record.
C26_Witness ==
  /\ ImportSucceeded
  /\ \E i \in IdleTexts(TextLines) : Strip(TextLines[i]) # << >>
  /\ RowCount(db, TheLaw) > 0


\* ---------------------------------------------------------------- C28
\* The labels of the lines of one kind, in text order.
RECURSIVE LabelsOf(_, _, _)
LabelsOf(lines, i, kind) ==
  IF i > Len(lines) THEN << >>
  ELSE IF Kind(lines[i]) = kind
       THEN <<LabelAt(lines, i)>> \o LabelsOf(lines, i + 1, kind)
       ELSE LabelsOf(lines, i + 1, kind)

\* The law-detail page of the law the import ran on.
DetailOfTheLaw == LawDetailView(laws[TheLaw].slug, laws, db).context

\* C28 (as claimed): after a successful import on a law that had no rows,
\* the law-detail view lists one section for each @SECTION line, one
\* schedule for each @SCHEDULE line and one appendix for each @APPENDIX
\* line, each list in the order of the lines in the text.
C28_DetailInTextOrder ==
  (ImportSucceeded /\ RowCount(last.pre, TheLaw) = 0) =>
    LET lines == TextLines
        page == DetailOfTheLaw
    IN /\ [k \in 1..Len(page.sections) |-> page.sections[k].section_number]
            = LabelsOf(lines, 1, "SECTION")
       /\ [k \in 1..Len(page.schedules) |-> page.schedules[k].schedule_number]
            = LabelsOf(lines, 1, "SCHEDULE")
       /\ [k \in 1..Len(page.appendices) |-> page.appendices[k].appendix_number]
            = LabelsOf(lines, 1, "APPENDIX")


\* ---------------------------------------------------------------- C27
\* The law ids the hits of the request carry.
LawsCarried == { AllHits[i].law : i \in { j \in 1..Len(AllHits) : "law" \in DOMAIN AllHits[j] } }

\* The calls and the lookup the claim describes.
ThreeCallsOneLookup ==
  /\ Len(resp.asked) = 3
  /\ resp.asked[1].index = "sections"
  /\ resp.asked[2].index = "schedules"
  /\ resp.asked[3].index = "appendices"
  /\ \A i \in 1..3 :
       /\ resp.asked[i].query = AskedFor
       /\ resp.asked[i].options = resp.asked[1].options
  /\ resp.asked[1].options.attributesToHighlight = <<"*">>
  /\ resp.lookups = <<LawsCarried>>

C29_LawIdNotResolved ==
  (Searched /\ ~resp.raised) =>
    \A i \in 1..Len(resp.results) :
      "law" \notin DOMAIN resp.results[i] =>
        /\ resp.results[i].law_title = "Error: Law not found"
        /\ resp.results[i].law_slug = ""

\* A hit with law_id 1, the title and the slug of law 1 and no law key.
C29_Witness ==
  /\ Searched
  /\ ~resp.raised
  /\ \E i \in 1..Len(resp.results) :
       /\ "law" \notin DOMAIN AllHits[i]
       /\ "law_id" \in DOMAIN AllHits[i]
       /\ AllHits[i].law_id \in DOMAIN laws
       /\ AllHits[i].law_title = laws[AllHits[i].law_id].title
       /\ AllHits[i].law_slug = laws[AllHits[i].law_id].slug
       /\ resp.results[i].law_id = AllHits[i].law_id


\* ---------------------------------------------------------------- C21
\* C21 (as claimed): rebuild_meili_index makes the calls of setup_index and
\* then one call of add_documents, with one document for each Section row of
\* the store, and returns the number of Section rows.
C21_RebuildSubmitsSections ==
  (last.op = "rebuild_meili") =>
    /\ ~resp.raised
    /\ Len(resp.calls) = Len(SetupCalls) + 1
    /\ SubSeq(resp.calls, 1, Len(SetupCalls)) = SetupCalls
    /\ resp.calls[Len(resp.calls)].call = "add_documents"
    /\ Len(resp.calls[Len(resp.calls)].docs) = Len(db.sections)
    /\ resp.returned = Len(db.sections)

\* ---------------------------------------------------------------- C22
Repaired == last.op = "repair_search_index"

\* The positions of the events of one kind.
EventsOfKind(kind) ==
  { i \in 1..Len(resp.events) : resp.events[i].kind = kind }

\* The models synced, in the order of the calls.
RECURSIVE SyncedFrom(_)
SyncedFrom(i) ==
  IF i > Len(resp.events) THEN << >>
  ELSE IF resp.events[i].kind = "sync"
       THEN <<resp.events[i].text>> \o SyncedFrom(i + 1)
       ELSE SyncedFrom(i + 1)

Wrote(text) == \E i \in EventsOfKind("out") : resp.events[i].text = text

\* C22: repair_search_index does not raise; it syncs laws.Section, then
\* laws.Schedule, then laws.Appendix, up to the first call that raises; when
\* a call raises it writes 'Index sync failed' and not that the index is
\* fully synchronized; and before the first sync it writes the number of
\* laws repaired, which is the number of laws that had an empty slug.
C22_RepairSyncsInOrder ==
  Repaired =>
    LET full == <<"laws.Section", "laws.Schedule", "laws.Appendix">>
        n == IF resp.failAt = 0 THEN 3 ELSE resp.failAt
    IN /\ ~resp.raised
       /\ SyncedFrom(1) = SubSeq(full, 1, n)
       /\ resp.failAt # 0 =>
            /\ Wrote("Index sync failed: {e}")
            /\ ~Wrote("DONE: Index is fully synchronized.")
       /\ resp.failAt = 0 =>
            /\ Wrote("DONE: Index is fully synchronized.")
            /\ ~Wrote("Index sync failed: {e}")
       /\ \E c \in EventsOfKind("out") :
            /\ resp.events[c].text = "Success: {count} laws repaired."
            /\ resp.events[c].count
                 = Cardinality({ l \in DOMAIN last.preLaws :
                                   last.preLaws[l].slug = "" })
            /\ \A i \in EventsOfKind("sync") : c < i

\* The second sync raised on a store where one law had an empty slug.
C22_Witness ==
  /\ Repaired
  /\ resp.failAt = 2
  /\ \E l \in DOMAIN last.preLaws : last.preLaws[l].slug = ""
  /\ \A l \in DOMAIN laws : laws[l].slug # ""


\* ---------------------------------------------------------------- C23
\* C23 (as claimed): when clean_with_ai runs with an API key on laws none of
\* which has extracted text, genai.GenerativeModel is not instantiated,
\* generate_content is not called and the Law table is as it was.
C23_NoTextNoModel ==
  (/\ last.op = "clean_with_ai"
   /\ resp.key # ""
   /\ \A l \in last.qs : last.preLaws[l].extracted_text \in {NoneText, << >>}) =>
    /\ resp.instantiated = 0
    /\ resp.generated = << >>
    /\ laws = last.preLaws

\* ---------------------------------------------------------------- C30
\* The username a run of init_admin was configured with.
ConfiguredName ==
  IF "DJANGO_ADMIN_USERNAME" \in DOMAIN resp.env
  THEN resp.env.DJANGO_ADMIN_USERNAME ELSE "admin"

RanInitAdmin == pc = "done" /\ resp.raised = FALSE /\ "env" \in DOMAIN resp

\* C30: after every run of init_admin there is exactly one user with the
\* configured username, no username is ever held by two users, and a run
\* that found the user leaves the user table, password and email of that
\* user included, as it was.
C30_InitAdminIdempotent ==
  /\ \A i, j \in 1..Len(users) :
       users[i].username = users[j].username => i = j
  /\ RanInitAdmin =>
       /\ Cardinality({ i \in 1..Len(users) :
                          users[i].username = ConfiguredName }) = 1
       /\ (\E i \in 1..Len(resp.preUsers) :
             resp.preUsers[i].username = ConfiguredName)
            => users = resp.preUsers

\* A run that found its user while configured with another password and
\* another email than the user has.
C30_Witness ==
  /\ RanInitAdmin
  /\ ~resp.created
  /\ \E i \in 1..Len(users) :
       /\ users[i].username = ConfiguredName
       /\ "DJANGO_ADMIN_PASSWORD" \in DOMAIN resp.env
       /\ users[i].password # <<"hash", resp.env.DJANGO_ADMIN_PASSWORD>>
       /\ "DJANGO_ADMIN_EMAIL" \in DOMAIN resp.env
       /\ users[i].email # resp.env.DJANGO_ADMIN_EMAIL

====
